---- MODULE Spec2Model ----
(***************************************************************************)
(* A model of PyDocEnhancer's DocEnhancer (src/pydocenhancer/core.py):     *)
(* construction and backend selection, the text-generation dispatch, the   *)
(* example detector and runner, parse_module and generate_docs.            *)
(*                                                                         *)
(* A Python string is a sequence of chunks.  A chunk is an atom of text:   *)
(* the marker word "Example", one blank " ", one newline "\n", the prompt  *)
(* ">>>", a triple quote, or a piece of other text.  The empty string is   *)
(* the empty sequence; None is the one-chunk sequence holding the atom     *)
(* NoneType, which is a chunk of no string.                                *)
(***************************************************************************)
EXTENDS Integers, Sequences, FiniteSets, TLC

VARIABLES
    obj,        \* the DocEnhancer object (obj.exists is FALSE until one is constructed)
    ctor,       \* the constructor call made: its arguments and how it ended
    pc,         \* position of the running call: "idle", "read", "walk", "write"
    call,       \* the running (or last) call: entry point, arguments, lang
    todo,       \* nodes ast.walk has still to visit
    functions,  \* parse_module's list of function records
    log,        \* the _llm calls of the running call, in order
    result,     \* how the last call ended: not yet, returned, or the exception raised
    dirs,       \* directories that exist
    written,    \* the files the running (or last) call has opened for writing
    report,     \* what the running call wrote into its report file
    doc,        \* detector specification: the docstring handed to the detector
    example     \* detector specification: what the detector returned

vars == <<obj, ctor, pc, call, todo, functions, log, result, dirs, written, report,
          doc, example>>

None == <<"NoneType">>

\* Python truthiness of a string-or-None value
Falsy(v) == v = None \/ v = <<>>

\* how a call ends: it returns a value or raises an exception of some type;
\* origin names the statement that raised
Return(v) == [kind |-> "return", value |-> v, type |-> "", origin |-> ""]

Raise(t, msg, o) == [kind |-> "raise", value |-> msg, type |-> t, origin |-> o]

NoResult == [kind |-> "none", value |-> <<>>, type |-> "", origin |-> ""]

\* the exception types that derive from BaseException but not from Exception
BaseOnly == {"SystemExit", "KeyboardInterrupt"}

\* does `except Exception` catch it
IsException(t) == t \notin BaseOnly

Unset == <<"unset">>

\* ---------------------------------------------------------------- bounds
MaxDocLen == 6

\* ---------------------------------------------------------------- strings
Chunks == {"Example", " ", "\n", ">>>", "'''", "\"\"\"", "x"}

IsSpace(c) == c \in {" ", "\n"}

IsTripleQuote(c) == c \in {"'''", "\"\"\""}

RECURSIVE LStrip(_)
LStrip(s) == IF s # <<>> /\ IsSpace(Head(s)) THEN LStrip(Tail(s)) ELSE s

RECURSIVE RStrip(_)
RStrip(s) ==
    IF s # <<>> /\ IsSpace(s[Len(s)]) THEN RStrip(SubSeq(s, 1, Len(s) - 1)) ELSE s

\* str.strip()
Strip(s) == RStrip(LStrip(s))

\* str.startswith(c) for a one-chunk prefix
StartsWith(s, c) == s # <<>> /\ Head(s) = c

\* 'Example' in line
Contains(s, c) == \E i \in 1..Len(s) : s[i] = c

\* str.splitlines(): split at newlines; a trailing newline opens no last line
RECURSIVE SplitLinesFrom(_, _)
SplitLinesFrom(s, cur) ==
    IF s = <<>> THEN (IF cur = <<>> THEN <<>> ELSE <<cur>>)
    ELSE IF Head(s) = "\n" THEN <<cur>> \o SplitLinesFrom(Tail(s), <<>>)
    ELSE SplitLinesFrom(Tail(s), Append(cur, Head(s)))

SplitLines(s) == SplitLinesFrom(s, <<>>)

\* '\n'.join(lines)
RECURSIVE JoinLines(_)
JoinLines(ls) ==
    IF ls = <<>> THEN <<>>
    ELSE IF Len(ls) = 1 THEN ls[1]
    ELSE ls[1] \o <<"\n">> \o JoinLines(Tail(ls))

\* ---------------------------------------------------------------- example detector
\* the loop without its break at a triple-quoted line
RECURSIVE ScanBroken(_, _, _)
ScanBroken(lines, i, in_example) ==
    IF i > Len(lines) THEN <<>>
    ELSE IF Contains(lines[i], "Example") THEN ScanBroken(lines, i + 1, TRUE)
    ELSE IF ~in_example THEN ScanBroken(lines, i + 1, FALSE)
    ELSE IF Strip(lines[i]) = <<>> \/ StartsWith(Strip(lines[i]), ">>>")
         THEN ScanBroken(lines, i + 1, TRUE)
    ELSE <<i>> \o ScanBroken(lines, i + 1, TRUE)

\* The loop of extract_example_from_docstring over lines[i..]: the indices of
\* the lines appended to example_lines.
RECURSIVE Scan(_, _, _)
Scan(lines, i, in_example) ==
    IF i > Len(lines) THEN <<>>
    ELSE IF Contains(lines[i], "Example") THEN Scan(lines, i + 1, TRUE)
    ELSE IF ~in_example THEN Scan(lines, i + 1, FALSE)
    ELSE IF Strip(lines[i]) = <<>> \/ StartsWith(Strip(lines[i]), ">>>")
         THEN Scan(lines, i + 1, TRUE)
    ELSE IF Strip(lines[i]) # <<>> /\ IsTripleQuote(Head(Strip(lines[i])))
         THEN <<>>
    ELSE <<i>> \o Scan(lines, i + 1, TRUE)

\* example_lines, as indices into docstring.splitlines()
example_lines(docstring) == Scan(SplitLines(docstring), 1, FALSE)

extract_example_from_docstring(docstring) ==
    LET lines == SplitLines(docstring)
        idx   == example_lines(docstring)
    IN  IF idx # <<>>
        THEN Strip(JoinLines([k \in 1..Len(idx) |-> lines[idx[k]]]))
        ELSE None

\* ---------------------------------------------------------------- example runner
\* what exec(code, {}) can do: run to its end, raise an Exception, or raise
\* an exception that is no Exception (sys.exit(), exit(), raise SystemExit)
ExecOutcomes == {"ok", "Exception", "SystemExit"}

test_example_code(code, x) ==
    IF Falsy(code) THEN Return(<<"No example to test.">>)
    ELSE IF x = "ok" THEN Return(<<"Success. Output:\n", "stdout">>)
    ELSE IF IsException(x) THEN Return(<<"Error: ", x>>)
    ELSE Raise(x, <<x>>, "exec")

\* ---------------------------------------------------------------- construction
\* the (provider, api_key, model) a constructor call is given
Configurations ==
    { <<None, None, None>>,
      <<<<"mock">>, None, <<"mock-model">>>>,
      <<<<"anthropic">>, <<"sk-key">>, <<"claude">>>>,
      <<<<"openai">>, <<"sk-key">>, <<"gpt-4">>>>,
      <<<<"local">>, None, <<"Ollama", "/", "llama3.2:latest">>>>,
      <<<<"local">>, None, <<"llama-2-7b.gguf">>>> }

Languages == {<<"en">>, <<"fr">>}

\* what importing and loading the backend's package can do
Dependencies == {"ok", "ImportError", "LoadError"}

\* str.lower() of a chunk
Lower(c) == IF c = "Ollama" THEN "ollama" ELSE c

\* self.model and "ollama" in self.model.lower()
IsOllamaModel(model) == ~Falsy(model) /\ \E i \in 1..Len(model) : Lower(model[i]) = "ollama"

\* _init_llm without its final else: any other provider gets no client
_init_llm_any(provider, model, dep) ==
    IF provider = <<"openai">>
    THEN (IF dep = "ImportError" THEN Raise("ImportError", <<"No module named 'openai'">>, "config")
          ELSE Return(<<"openai">>))
    ELSE IF provider = <<"local">> /\ IsOllamaModel(model) THEN Return(<<"ollama">>)
    ELSE IF provider = <<"local">>
    THEN (IF dep = "ImportError"
          THEN Raise("ImportError", <<"ctransformers is required for local LLMs.">>, "config")
          ELSE IF dep = "LoadError"
          THEN Raise("LoadError", <<"from_pretrained failed">>, "config")
          ELSE Return(<<"AutoModelForCausalLM">>))
    ELSE Return(None)

_init_llm(provider, model, dep) ==
    IF provider = <<"openai">>
    THEN (IF dep = "ImportError" THEN Raise("ImportError", <<"No module named 'openai'">>, "config")
          ELSE Return(<<"openai">>))
    ELSE IF provider = <<"local">> /\ IsOllamaModel(model) THEN Return(<<"ollama">>)
    ELSE IF provider = <<"local">>
    THEN (IF dep = "ImportError"
          THEN Raise("ImportError", <<"ctransformers is required for local LLMs.">>, "config")
          ELSE IF dep = "LoadError"
          THEN Raise("LoadError", <<"from_pretrained failed">>, "config")
          ELSE Return(<<"AutoModelForCausalLM">>))
    ELSE Raise("ValueError", <<"Unsupported provider: ">> \o provider, "config")

\* DocEnhancer.__init__: the outcome, whose value is the object when it returns
__init__(provider, api_key, model, language, dep) ==
    IF provider = None \/ provider = <<"mock">>
    THEN Raise("ValueError", <<"A real LLM provider is required.">>, "config")
    ELSE LET llm == _init_llm(provider, model, dep)
         IN  IF llm.kind = "raise" THEN llm
             ELSE Return([exists |-> TRUE, provider |-> provider, api_key |-> api_key,
                          model |-> model, language |-> language, llm |-> llm.value])

\* ---------------------------------------------------------------- text generation
Tasks == {"translate", "summarize", "explain", "example"}

\* what a backend can do with a request: answer, fail in transport
\* (requests.exceptions.RequestException) or fail otherwise (a bad body, a
\* missing key, an error of the client library or of the model)
Faults == {"none", "RequestException", "Exception"}

\* what a backend answers: text with surrounding blanks, or blanks only
Answers == {"text", "blank"}

Answer(a, prompt) == IF a = "blank" THEN <<" ">> ELSE <<" ", "re: ">> \o prompt \o <<"\n">>

_llm_ollama(self, prompt, b) ==
    IF b.fault = "none" THEN Return(Strip(Answer(b.answer, prompt)))
    ELSE IF b.fault = "RequestException"
    THEN Raise("RuntimeError", <<"Ollama LLM request failed: ", b.fault>>, "llm")
    ELSE Raise("RuntimeError", <<"Unexpected error from Ollama LLM: ", b.fault>>, "llm")

_llm_openai(self, prompt, b) ==
    IF b.fault = "none" THEN Return(Strip(Answer(b.answer, prompt)))
    ELSE Raise("RuntimeError", <<"OpenAI LLM request failed: ", b.fault>>, "llm")

_llm_local(self, prompt, b) ==
    IF Falsy(self.llm) THEN Raise("RuntimeError", <<"Local LLM is not initialized.">>, "llm")
    ELSE IF b.fault = "none" THEN Return(Answer(b.answer, prompt))
    ELSE Raise(b.fault, <<b.fault>>, "llm")

\* lang = language or self.language
_llm_lang(self, language) == IF Falsy(language) THEN self.language ELSE language

\* the prompt template of a task
Template(task) ==
    CASE task = "summarize" -> <<"Summarize the following Python code in ">>
      [] task = "explain"   -> <<"Explain what the following Python code does in ">>
      [] task = "translate" -> <<"Translate the following documentation to ">>
      [] task = "example"   -> <<"Generate a usage example for the following Python function in ">>

_llm_prompt(self, text, task, language) ==
    IF task \in Tasks
    THEN Template(task) \o _llm_lang(self, language) \o <<":\n">> \o text
    ELSE text

\* the branch of the dispatch of _llm
_llm_backend(self) ==
    IF self.provider = <<"openai">> THEN "openai"
    ELSE IF self.provider = <<"local">> /\ IsOllamaModel(self.model) THEN "ollama"
    ELSE IF self.provider = <<"local">> THEN "local"
    ELSE "unsupported"

_llm(self, text, task, language, b) ==
    LET prompt == _llm_prompt(self, text, task, language)
    IN  CASE _llm_backend(self) = "openai" -> _llm_openai(self, prompt, b)
          [] _llm_backend(self) = "ollama" -> _llm_ollama(self, prompt, b)
          [] _llm_backend(self) = "local"  -> _llm_local(self, prompt, b)
          [] OTHER -> Raise("ValueError", <<"A real LLM provider is required.">>, "dispatch")

\* ---------------------------------------------------------------- extraction
Node(type, name, docstring) == [type |-> type, name |-> name, docstring |-> docstring]

\* The files a call can be pointed at: path (its components), what open(),
\* read() and ast.parse() do with it, and the nodes of its tree in the order
\* of ast.walk (docstring: what ast.get_docstring returns for the node).
Modules ==
    { [path |-> <<"nonexistent_file.py">>, status |-> "missing", nodes |-> <<>>],
      [path |-> <<"tmp", "secret.py">>, status |-> "denied", nodes |-> <<>>],
      [path |-> <<"tmp", "dir.py">>, status |-> "unreadable", nodes |-> <<>>],
      [path |-> <<"tmp", "bad.py">>, status |-> "syntax", nodes |-> <<>>],
      [path |-> <<"tmp", "nul.py">>, status |-> "unparsable", nodes |-> <<>>],
      [path |-> <<"tmp", "nodoc.py">>, status |-> "ok",
       nodes |-> << Node("Module", "", None), Node("FunctionDef", "foo", None) >>],
      [path |-> <<"sample.py">>, status |-> "ok",
       nodes |-> << Node("Module", "", None),
                    Node("FunctionDef", "example_function", <<"Example", " ", "x">>) >>],
      [path |-> <<"tmp", "sample.py">>, status |-> "ok",
       nodes |-> << Node("Module", "", None),
                    Node("FunctionDef", "run", <<"x", "\n", "Example", ":", "\n", "x">>) >>],
      [path |-> <<"pkg", "nodoc.py">>, status |-> "ok",
       nodes |-> << Node("Module", "", None),
                    Node("ClassDef", "K", None),
                    Node("AsyncFunctionDef", "fetch", None),
                    Node("FunctionDef", "outer", <<"x">>),
                    Node("FunctionDef", "inner", <<>>) >>] }

\* lines 101-115 of parse_module: open, read, ast.parse
parse_module_read(module) ==
    CASE module.status = "missing" ->
            Raise("FileNotFoundError", <<"Module file not found: ">> \o module.path, "read")
      [] module.status = "denied" ->
            Raise("PermissionError", <<"Permission denied when reading: ">> \o module.path, "read")
      [] module.status = "unreadable" ->
            Raise("RuntimeError", <<"Error reading file ">> \o module.path, "read")
      [] module.status = "syntax" ->
            Raise("SyntaxError", <<"Syntax error in ">> \o module.path, "parse")
      [] module.status = "unparsable" ->
            Raise("RuntimeError", <<"Error parsing AST for ">> \o module.path, "parse")
      [] OTHER -> Return(module.nodes)

\* what reconstructing the source of a node can do: ast.unparse works, ast has
\* no unparse (AttributeError, the lines of the file are sliced), or it raises
SourceOutcomes == {"unparse", "AttributeError", "Exception"}

node_source(node, s) ==
    CASE s = "unparse" -> <<"def ", node.name, "(...): ...">>
      [] s = "AttributeError" -> <<"def ", node.name, "(...): ...", "  # as written">>
      [] OTHER -> <<"Error extracting source: ", s>>

\* ast.get_docstring(node) or "No docstring"
node_docstring(node) == IF Falsy(node.docstring) THEN <<"No docstring">> ELSE node.docstring

\* the order of the four _llm calls of parse_module, and the text of each
TaskOrder == <<"translate", "summarize", "explain", "example">>

task_text(k, docstring, source) == IF k <= 2 THEN docstring ELSE source

\* what the backend does during the visit of one function: which calls fail
\* and how, and what the others are answered
BackendRun(F, k, a) ==
    [t \in Tasks |-> [fault |-> IF t \in F THEN k ELSE "none", answer |-> a]]

BackendRuns ==
    { BackendRun(F, "RequestException", "text") : F \in SUBSET Tasks }
    \cup { BackendRun(Tasks, "Exception", "text"), BackendRun({}, "none", "blank") }

\* what can happen during the visit of one function
Visits ==
    { [source |-> "unparse", backend |-> B, exec |-> x] :
        B \in BackendRuns, x \in ExecOutcomes }
    \cup { [source |-> s, backend |-> BackendRun({}, "none", "text"), exec |-> "ok"] :
             s \in SourceOutcomes }

\* an _llm call outside any try
try_llm_uncaught(r) == r

\* try: ... except Exception as e: field = f"Error from LLM: {e}"

try_llm(r) ==
    IF r.kind = "raise" /\ IsException(r.type)
    THEN Return(<<"Error from LLM: ">> \o r.value)
    ELSE r

Min(S) == CHOOSE k \in S : \A j \in S : k <= j

\* lines 120-159 of parse_module for one FunctionDef node: the record appended
\* (or the exception that leaves the loop) and the _llm calls made
visit(self, node, s, B, x) ==
    LET docstring == node_docstring(node)
        source    == node_source(node, s)
        found     == extract_example_from_docstring(docstring)
        raw       == [k \in 1..4 |-> _llm(self, task_text(k, docstring, source),
                                           TaskOrder[k], self.language, B[TaskOrder[k]])]
        got       == [k \in 1..4 |-> try_llm(raw[k])]
        escaped   == {k \in 1..4 : got[k].kind = "raise"}
        made      == IF escaped = {} THEN 4 ELSE Min(escaped)
        calls     == [k \in 1..made |->
                        [function |-> node.name, task |-> TaskOrder[k],
                         language |-> _llm_lang(self, self.language),
                         backend |-> _llm_backend(self),
                         fault |-> B[TaskOrder[k]].fault,
                         kind |-> raw[k].kind, type |-> raw[k].type,
                         value |-> raw[k].value]]
        tested    == IF ~Falsy(found) THEN test_example_code(found, x) ELSE Return(None)
    IN  IF escaped # {} THEN [calls |-> calls, outcome |-> got[made]]
        ELSE IF tested.kind = "raise" THEN [calls |-> calls, outcome |-> tested]
        ELSE [calls |-> calls,
              outcome |-> Return([name |-> node.name,
                                  docstring |-> got[1].value,
                                  source |-> source,
                                  summary |-> got[2].value,
                                  explanation |-> got[3].value,
                                  example |-> got[4].value,
                                  example_test_result |-> tested.value])]

\* ---------------------------------------------------------------- report
ArgLanguages == {None, <<>>, <<"fr">>}

OutputDirs == {<<"docs">>}

\* what os.makedirs can do
MakedirsOutcomes == {"ok", "OSError"}

\* what open(output_file, "w") can do
WriteOutcomes == {"ok", "OSError"}

\* os.path.basename
basename(path) == <<path[Len(path)]>>

\* f"{v}"
Format(v) == IF v = None THEN <<"None">> ELSE v

\* lang = language or self.language
generate_docs_lang(self, language) == IF Falsy(language) THEN self.language ELSE language

\* the file name without the language
output_file_no_lang(output_dir, module_path, lang) ==
    [dir |-> output_dir, name |-> basename(module_path) \o <<".md">>]

\* os.path.join(output_dir, f"{os.path.basename(module_path)}.{lang}.md")
output_file(output_dir, module_path, lang) ==
    [dir |-> output_dir, name |-> basename(module_path) \o <<".">> \o lang \o <<".md">>]

Field(label, text) == [label |-> label, text |-> text]

\* lines 210-217: what is written for one function
section(func) ==
    << Field("## Function: ", <<func.name>>),
       Field("**Docstring**: ", Format(func.docstring)),
       Field("**Summary**: ", Format(func.summary)),
       Field("**Explanation**: ", Format(func.explanation)) >>
    \o (IF ~Falsy(func.example)
        THEN << Field("**Example**:", Format(func.example)),
                Field("**Example Test Result**: ", Format(func.example_test_result)) >>
        ELSE <<>>)
    \o << Field("source", func.source) >>

title(module_path, lang) ==
    << Field("# Documentation for ", basename(module_path) \o <<" [">> \o lang \o <<"]">>) >>

RECURSIVE sections(_)
sections(funcs) == IF funcs = <<>> THEN <<>> ELSE section(Head(funcs)) \o sections(Tail(funcs))

\* except Exception as e: raise RuntimeError(f"Failed to parse module: {e}")
generate_docs_except(r) ==
    IF IsException(r.type)
    THEN Raise("RuntimeError", <<"Failed to parse module: ">> \o r.value, r.origin)
    ELSE r

\* how an exception that leaves parse_module reaches the caller of the entry point
leave(entry, r) == IF entry = "generate_docs" THEN generate_docs_except(r) ELSE r

\* ---------------------------------------------------------------- detector specification
NoObject ==
    [exists |-> FALSE, provider |-> None, api_key |-> None, model |-> None,
     language |-> None, llm |-> None]

NoCall ==
    [entry |-> "", module |-> <<>>, output_dir |-> None, language |-> None,
     lang |-> None]

Idle ==
    /\ obj = NoObject /\ ctor = [made |-> FALSE] /\ pc = "idle" /\ call = NoCall
    /\ todo = <<>> /\ functions = <<>> /\ log = <<>> /\ result = NoResult
    /\ dirs = {} /\ written = {} /\ report = <<>>

InitExample == Idle /\ doc = <<>> /\ example = Unset

\* the caller writes one more chunk of the docstring
Write ==
    /\ example = Unset
    /\ Len(doc) < MaxDocLen
    /\ \E c \in Chunks : doc' = Append(doc, c)
    /\ UNCHANGED <<obj, ctor, pc, call, todo, functions, log, result, dirs, written,
                   report, example>>

\* the call extract_example_from_docstring(doc)
Detect ==
    /\ example = Unset
    /\ example' = extract_example_from_docstring(doc)
    /\ UNCHANGED <<obj, ctor, pc, call, todo, functions, log, result, dirs, written,
                   report, doc>>

NextExample == Write \/ Detect

SpecExample == InitExample /\ [][NextExample]_vars

\* ---------------------------------------------------------------- the program
Init == Idle /\ doc = <<>> /\ example = Unset

\* DocEnhancer(provider, api_key, model, language)
DocEnhancer ==
    /\ ~ctor.made
    /\ \E c \in Configurations, language \in Languages, dep \in Dependencies :
          LET provider == c[1]
              model    == c[3]
              r        == __init__(provider, c[2], model, language, dep)
          IN  /\ ctor' = [made |-> TRUE, provider |-> provider, model |-> model,
                          kind |-> r.kind, type |-> r.type]
              /\ obj' = IF r.kind = "return" THEN r.value ELSE NoObject
    /\ UNCHANGED <<pc, call, todo, functions, log, result, dirs, written, report,
                   doc, example>>

\* generate_docs(module_path, output_dir, language), lines 195-200
generate_docs_enter ==
    /\ obj.exists /\ pc = "idle"
    /\ \E module \in Modules, output_dir \in OutputDirs, language \in ArgLanguages :
          /\ call' = [entry |-> "generate_docs", module |-> module,
                      output_dir |-> output_dir, language |-> language,
                      lang |-> generate_docs_lang(obj, language)]
          /\ IF output_dir \in dirs
             THEN result' = NoResult /\ pc' = "read" /\ dirs' = dirs
             ELSE \E mk \in MakedirsOutcomes :
                    IF mk = "ok"
                    THEN /\ result' = NoResult
                         /\ pc' = "read"
                         /\ dirs' = dirs \cup {output_dir}
                    ELSE /\ result' = Raise("RuntimeError",
                                            <<"Could not create output directory ">>
                                                \o output_dir, "makedirs")
                         /\ pc' = "idle"
                         /\ dirs' = dirs
    /\ todo' = <<>> /\ functions' = <<>> /\ log' = <<>> /\ report' = <<>>
    /\ written' = {}
    /\ UNCHANGED <<obj, ctor, doc, example>>

\* parse_module(module_path) called by the user
parse_module_enter ==
    /\ obj.exists /\ pc = "idle"
    /\ \E module \in Modules :
          call' = [entry |-> "parse_module", module |-> module, output_dir |-> None,
                   language |-> None, lang |-> None]
    /\ result' = NoResult
    /\ pc' = "read"
    /\ todo' = <<>> /\ functions' = <<>> /\ log' = <<>> /\ report' = <<>>
    /\ written' = {}
    /\ UNCHANGED <<obj, ctor, dirs, doc, example>>

\* parse_module, lines 101-116
parse_module_open ==
    /\ pc = "read"
    /\ LET r == parse_module_read(call.module)
       IN  IF r.kind = "raise"
           THEN /\ result' = leave(call.entry, r)
                /\ pc' = "idle"
                /\ todo' = todo
           ELSE /\ result' = result
                /\ pc' = "walk"
                /\ todo' = r.value
    /\ UNCHANGED <<obj, ctor, call, functions, log, dirs, written, report, doc, example>>

\* parse_module, lines 118-159: one node of ast.walk(tree)
parse_module_visit ==
    /\ pc = "walk" /\ todo # <<>>
    /\ LET node == Head(todo)
       IN  IF node.type # "FunctionDef"
           THEN /\ todo' = Tail(todo)
                /\ UNCHANGED <<functions, log, result, pc>>
           ELSE \E e \in Visits :
                  LET v == visit(obj, node, e.source, e.backend, e.exec)
                  IN  /\ log' = log \o v.calls
                      /\ IF v.outcome.kind = "raise"
                         THEN /\ result' = leave(call.entry, v.outcome)
                              /\ pc' = "idle"
                              /\ UNCHANGED <<todo, functions>>
                         ELSE /\ functions' = Append(functions, v.outcome.value)
                              /\ todo' = Tail(todo)
                              /\ UNCHANGED <<result, pc>>
    /\ UNCHANGED <<obj, ctor, call, dirs, written, report, doc, example>>

\* parse_module, line 160: return functions
parse_module_return ==
    /\ pc = "walk" /\ todo = <<>>
    /\ IF call.entry = "parse_module"
       THEN pc' = "idle" /\ result' = Return(<<"functions">>)
       ELSE pc' = "write" /\ result' = result
    /\ UNCHANGED <<obj, ctor, call, todo, functions, log, dirs, written, report,
                   doc, example>>

\* generate_docs, lines 205-219
generate_docs_write ==
    /\ pc = "write"
    /\ \E w \in WriteOutcomes :
          LET path == output_file(call.output_dir, call.module.path, call.lang)
          IN  CASE w = "ok" ->
                    /\ written' = written \cup {path}
                    /\ report' = title(call.module.path, call.lang) \o sections(functions)
                    /\ result' = Return(None)
                [] OTHER ->
                    /\ written' = written
                    /\ report' = report
                    /\ result' = Raise("RuntimeError",
                                       <<"Failed to write documentation file: ", w>>, "write")
    /\ pc' = "idle"
    /\ UNCHANGED <<obj, ctor, call, todo, functions, log, dirs, doc, example>>

Next ==
    \/ DocEnhancer
    \/ generate_docs_enter
    \/ parse_module_enter
    \/ parse_module_open
    \/ parse_module_visit
    \/ parse_module_return
    \/ generate_docs_write

Spec == Init /\ [][Next]_vars

\* ---------------------------------------------------------------- properties
\* the call has ended
Ended == pc = "idle" /\ result.kind # "none"

Returned(entry) == Ended /\ call.entry = entry /\ result.kind = "return"

\* the field of a function record that a task fills, and its label in the report
FieldOf(func, task) ==
    CASE task = "translate" -> func.docstring
      [] task = "summarize" -> func.summary
      [] task = "explain"   -> func.explanation
      [] task = "example"   -> func.example

LabelOf(task) ==
    CASE task = "translate" -> "**Docstring**: "
      [] task = "summarize" -> "**Summary**: "
      [] task = "explain"   -> "**Explanation**: "
      [] task = "example"   -> "**Example**:"

\* C1: the four _llm calls of a function are made whatever subset of them
\* fails; the field of a failed call starts with "Error from LLM: " and the
\* field of any other call is what the backend returned; no call of
\* parse_module or generate_docs ends because an _llm call failed; and the
\* report generate_docs writes shows every error string.
DegradeInPlace ==
    /\ Len(log) % 4 = 0
    /\ Len(log) >= 4 * Len(functions)
    /\ \A i \in 1..Len(functions) : \A k \in 1..4 :
          LET e == log[4 * (i - 1) + k]
              f == FieldOf(functions[i], TaskOrder[k])
          IN  /\ e.function = functions[i].name
              /\ e.task = TaskOrder[k]
              /\ (e.fault # "none") <=> StartsWith(f, "Error from LLM: ")
              /\ e.fault = "none" => (e.kind = "return" /\ f = e.value)
              /\ Returned("generate_docs") /\ e.fault # "none" =>
                    \E j \in 1..Len(report) :
                        report[j] = Field(LabelOf(TaskOrder[k]), f)
    /\ result.origin \notin {"llm", "dispatch"}
    /\ Returned("generate_docs") => Len(report) >= 1 + 5 * Len(functions)

\* C1 witness: generate_docs returned after a function whose calls all failed
\* and a function of which some calls failed and some did not.
DegradeInPlaceWitness ==
    /\ Returned("generate_docs")
    /\ Len(functions) = 2
    /\ \A k \in 1..4 : log[k].fault # "none"
    /\ \E k \in 5..8 : log[k].fault # "none"
    /\ \E k \in 5..8 : log[k].fault = "none"

\* C2: in every function record example_test_result is not None exactly when
\* example is not None, and the report shows no example block whose test
\* outcome is missing.
ExampleTestResultIffExample ==
    /\ \A i \in 1..Len(functions) :
          (functions[i].example_test_result # None) <=> (functions[i].example # None)
    /\ \A j \in 1..Len(report) :
          report[j].label = "**Example Test Result**: " => report[j].text # <<"None">>

\* C3: generate_docs on a path that does not exist raises FileNotFoundError and
\* creates no file; any failure of the extraction leaves no file behind.
MissingModuleRaisesNotFound ==
    (Ended /\ call.entry = "generate_docs" /\ result.origin \in {"read", "parse"}) =>
        /\ result.kind = "raise"
        /\ written = {}
        /\ call.module.status = "missing" => result.type = "FileNotFoundError"

\* C4: no failure of the executed example leaves test_example_code: no call
\* ends with an exception raised by the example.
ExampleRunnerTotal == ~(result.kind = "raise" /\ result.origin = "exec")

\* C5: for every backend and task, a failure of the backend leaves _llm as a
\* RuntimeError.
BackendFailureIsRuntimeError ==
    \A k \in 1..Len(log) :
        log[k].fault # "none" => (log[k].kind = "raise" /\ log[k].type = "RuntimeError")

RECURSIVE CountDefs(_)
CountDefs(nodes) ==
    IF nodes = <<>> THEN 0
    ELSE (IF Head(nodes).type \in {"FunctionDef", "AsyncFunctionDef"} THEN 1 ELSE 0)
         + CountDefs(Tail(nodes))

\* C7: parse_module returns one record per function definition of the module,
\* each with a non-empty source and a docstring that is a non-empty string.
OneRecordPerFunction ==
    (Ended /\ result.kind = "return") =>
        /\ Len(functions) = CountDefs(call.module.nodes)
        /\ \A i \in 1..Len(functions) :
              /\ functions[i].source # <<>>
              /\ functions[i].docstring # None
              /\ functions[i].docstring # <<>>

\* C8: a generate_docs that returns has written exactly the file
\* {output_dir}/{basename of module_path}.{language}.md, language being the
\* argument when it is given (not None, not empty) and the configured language
\* otherwise; output_dir exists; and no call writes any other file.
ExpectedFile ==
    [dir |-> call.output_dir,
     name |-> <<call.module.path[Len(call.module.path)], ".">>
              \o (IF call.language \notin {None, <<>>} THEN call.language ELSE obj.language)
              \o <<".md">>]

AdapterLanguageIsReportLanguage ==
    call.entry = "generate_docs" =>
        \A k \in 1..Len(log) : log[k].language = call.lang

\* the lines of a docstring and the first that holds the marker
Lines == SplitLines(doc)

Markers == {i \in 1..Len(Lines) : Contains(Lines[i], "Example")}

LooksLikeBlockEnd(line) == Strip(line) # <<>> /\ IsTripleQuote(Head(Strip(line)))

\* what the detector's result is made of: the lines of these indices
Collected == example_lines(doc)

\* the part of C9 that holds of the code whichever lines end the collection
DetectorBasics ==
    /\ Markers = {} => example = None
    /\ example # None =>
          /\ example # <<>>
          /\ Markers # {}
          /\ example = Strip(JoinLines([k \in 1..Len(Collected) |-> Lines[Collected[k]]]))
          /\ \A k \in 1..Len(Collected) :
                /\ Collected[k] > Min(Markers)
                /\ Strip(Lines[Collected[k]]) # <<>>
                /\ ~StartsWith(Strip(Lines[Collected[k]]), ">>>")

\* C9 as stated: without a marker line the result is None, and a result that
\* is not None is a non-empty string of lines after the first marker line, none
\* blank or starting with ">>>", none after a line (itself after the first
\* marker line) that looks like the end of a triple-quoted block.
ExampleDetectorOriginal ==
    example # Unset =>
        /\ DetectorBasics
        /\ example # None =>
              \A k \in 1..Len(Collected) : \A j \in (Min(Markers) + 1)..(Collected[k] - 1) :
                  ~LooksLikeBlockEnd(Lines[j])

\* C9 amended: as stated, but the line that ends the collection is one that
\* looks like the end of a triple-quoted block and does not hold the marker.
ExampleDetector ==
    example # Unset =>
        /\ DetectorBasics
        /\ example # None =>
              \A k \in 1..Len(Collected) : \A j \in (Min(Markers) + 1)..(Collected[k] - 1) :
                  ~(LooksLikeBlockEnd(Lines[j]) /\ ~Contains(Lines[j], "Example"))

\* C9 witness: the detector returned an example from a docstring in which a
\* line that looks like the end of a triple-quoted block follows the example.
ExampleDetectorWitness ==
    /\ example # Unset /\ example # None
    /\ \E j \in 1..Len(Lines) :
          /\ j > Collected[Len(Collected)]
          /\ LooksLikeBlockEnd(Lines[j])
          /\ ~Contains(Lines[j], "Example")

====
